---- MODULE Spec2Model ----
(***************************************************************************)
(* A model of the grid-world coin collection planner of                    *)
(* src/heuristic_search.py: Grid, State, SearchNode, the five heuristics   *)
(* and astar_search with its heapq open list and its visited / expanded    *)
(* tables.                                                                 *)
(***************************************************************************)
EXTENDS Integers, Sequences, FiniteSets, TLC

(***************************************************************************)
(* The enumerated grids: every grid of one of the shapes (width, height)   *)
(* below with a start cell, at most MaxCoins coins and at most MaxWalls    *)
(* walls.  The shapes are the rectangles up to 3 x 2 and 2 x 3 and the     *)
(* one-row and one-column strips of up to MaxStrip cells.                  *)
(***************************************************************************)
MaxCoins == 2
MaxWalls == 2
MaxStrip == 3

Shapes ==
  {<<3, 2>>, <<2, 3>>, <<2, 2>>}
    \cup {<<k, 1>> : k \in 1..MaxStrip} \cup {<<1, k>> : k \in 1..MaxStrip}

(***************************************************************************)
(* Cell symbols (class Grid).  A cell of the Python grid is a one-letter   *)
(* string or an int (a coin id); here every cell is a record, sym = "int"  *)
(* standing for isinstance(cell, int).                                     *)
(***************************************************************************)
AGENT_SYMBOL == "A"
WALL_SYMBOL == "#"
EMPTY_SYMBOL == " "

Sym(s) == [sym |-> s, id |-> -1]
Coin(k) == [sym |-> "int", id |-> k]

\* Grid.__init__(inv): grid[x][y] = inv[y][x], width = len(inv[0]), height = len(inv)
Grid(inv) ==
  LET w == Len(inv[1])
      h == Len(inv)
  IN [width |-> w, height |-> h,
      grid |-> [x \in 0..(w - 1) |-> [y \in 0..(h - 1) |-> inv[y + 1][x + 1]]]]

\* The grid built in __main__ when no map file is given.
SampleGrid ==
  LET W == Sym(WALL_SYMBOL)
      E == Sym(EMPTY_SYMBOL)
      A == Sym(AGENT_SYMBOL)
      C == Coin(0)
  IN Grid(<< <<W, W, W, W, W, W, W, W, W>>,
             <<W, E, E, A, E, E, E, E, W>>,
             <<W, E, W, E, W, E, W, W, W>>,
             <<W, E, W, W, W, E, W, E, W>>,
             <<W, E, W, E, W, E, E, C, W>>,
             <<W, E, E, E, W, E, W, W, W>>,
             <<W, E, W, E, W, E, E, E, W>>,
             <<W, E, W, E, W, W, W, E, W>>,
             <<W, W, W, W, W, W, W, W, W>> >>)

\* A map on which ManhattanSumHeuristic overestimates: three coins around
\* the start cell.
ThreeCoinGrid ==
  Grid(<< <<Sym(AGENT_SYMBOL), Coin(1), Coin(2)>>,
          <<Coin(0), Sym(EMPTY_SYMBOL), Sym(EMPTY_SYMBOL)>> >>)

\* The sample map with its coin cell left empty (no coin declared).
SampleGridNoCoin ==
  [SampleGrid EXCEPT !.grid[7][4] = Sym(EMPTY_SYMBOL)]

(***************************************************************************)
(* Grid.load_from_file: a map of traversable and wall cells, then the      *)
(* start cell overwritten with 'A', then the coin cells overwritten in     *)
(* order with the ids 0, 1, ...                                            *)
(***************************************************************************)
load_from_file(w, h, walls, start, coins) ==
  [width |-> w, height |-> h,
   grid |-> [x \in 0..(w - 1) |-> [y \in 0..(h - 1) |->
      LET ids == {k \in 1..Len(coins) : coins[k] = <<x, y>>}
      IN IF ids # {}
           THEN Coin((CHOOSE k \in ids : \A m \in ids : m <= k) - 1)
           ELSE IF start = <<x, y>> THEN Sym(AGENT_SYMBOL)
           ELSE IF <<x, y>> \in walls THEN Sym(WALL_SYMBOL)
           ELSE Sym(EMPTY_SYMBOL)]]]

CellsOf(w, h) == (0..(w - 1)) \X (0..(h - 1))

InjectiveSeqs(S, n) ==
  {s \in [1..n -> S] : \A i, j \in 1..n : i # j => s[i] # s[j]}

\* Grids of one size: a start cell, up to MaxCoins coins on distinct other
\* cells, up to MaxWalls walls on the remaining cells.
GridsOfSize(w, h) ==
  UNION {UNION {
    {load_from_file(w, h, walls, start, coins) :
        walls \in {ws \in SUBSET (CellsOf(w, h) \ ({start} \cup {coins[k] : k \in 1..n})) :
                      Cardinality(ws) <= MaxWalls}} :
      coins \in InjectiveSeqs(CellsOf(w, h) \ {start}, n)} :
    start \in CellsOf(w, h), n \in 0..MaxCoins}

\* A map whose start cell was overwritten by a coin: no cell holds 'A'.
GridsWithoutStart ==
  {load_from_file(sh[1], sh[2], {}, <<0, 0>>, <<c>>) : sh \in Shapes, c \in {<<0, 0>>}}

Grids ==
  UNION {GridsOfSize(sh[1], sh[2]) : sh \in Shapes}
    \cup GridsWithoutStart \cup {SampleGrid, SampleGridNoCoin, ThreeCoinGrid}

\* Op applied to the value of v: v is evaluated once, as a Python argument is.
Call(v, Op(_)) == CHOOSE r \in {Op(x) : x \in {v}} : TRUE

(***************************************************************************)
(* class Grid                                                              *)
(***************************************************************************)
is_within_boundaries(g, x, y) ==
  x >= 0 /\ x < g.width /\ y >= 0 /\ y < g.height

lookup(g, x, y) == g.grid[x][y]

is_wall(g, x, y) == lookup(g, x, y).sym = WALL_SYMBOL

is_coin(g, x, y) == lookup(g, x, y).sym = "int"

\* Python None
None == [none |-> TRUE]

get_coin_id(g, x, y) == IF is_coin(g, x, y) THEN g.grid[x][y].id ELSE None

\* State(grid, x, y, coins_collected); the grid reference is the one grid.
MkState(x, y, cs) == [x |-> x, y |-> y, coins_collected |-> cs]

\* The cells sorted by y first: "for y in range(height): for x in range(width)".
ScanOrderRowMajor(g) ==
  [k \in 1..(g.width * g.height) |-> <<(k - 1) % g.width, (k - 1) \div g.width>>]

\* The cells in the scan order of "for x in range(width): for y in range(height)".
ScanOrder(g) ==
  [k \in 1..(g.width * g.height) |-> <<(k - 1) \div g.height, (k - 1) % g.height>>]

get_initial_state(g) ==
  LET hits == SelectSeq(ScanOrder(g), LAMBDA c : g.grid[c[1]][c[2]] = Sym(AGENT_SYMBOL))
  IN IF Len(hits) > 0 THEN MkState(hits[1][1], hits[1][2], {}) ELSE None

get_coin_locations(g) ==
  SelectSeq(ScanOrder(g), LAMBDA c : is_coin(g, c[1], c[2]))

\* The pairs of loops that stop one short: range(-1, 1).
LoopPairsShort == [k \in 1..4 |-> <<((k - 1) \div 2) - 1, ((k - 1) % 2) - 1>>]

\* The (i, j) pairs of "for i in range(-1, 2): for j in range(-1, 2)".
LoopPairs == [k \in 1..9 |-> <<((k - 1) \div 3) - 1, ((k - 1) % 3) - 1>>]

\* The pairs kept when the "i * j != 0" test is left out.
DirectionsWithDiagonals ==
  SelectSeq(LoopPairs, LAMBDA d : ~(d[1] = 0 /\ d[2] = 0))

\* The four directions in the order left, down, right, up.
DirectionsLeftDownRightUp == <<(<<-1, 0>>), (<<0, 1>>), (<<1, 0>>), (<<0, -1>>)>>

\* The pairs the loop body does not skip.
Directions ==
  SelectSeq(LoopPairs, LAMBDA d : ~((d[1] = 0 /\ d[2] = 0) \/ d[1] * d[2] # 0))

\* A successor that does not pick up the coin of its cell.
SuccessorAtKeepsSet(g, state, d) ==
  MkState(state.x + d[1], state.y + d[2], state.coins_collected)

SuccessorAt(g, state, d) ==
  LET x == state.x + d[1]
      y == state.y + d[2]
  IN MkState(x, y, IF is_coin(g, x, y)
                     THEN state.coins_collected \cup {g.grid[x][y].id}
                     ELSE state.coins_collected)

get_successor_states(g, state) ==
  Call(SelectSeq(Directions,
         LAMBDA d : is_within_boundaries(g, state.x + d[1], state.y + d[2])
                    /\ ~is_wall(g, state.x + d[1], state.y + d[2])),
       LAMBDA kept : [k \in 1..Len(kept) |-> SuccessorAt(g, state, kept[k])])

(***************************************************************************)
(* class State                                                             *)
(***************************************************************************)
has_collected_coin(state, coin_id) == coin_id \in state.coins_collected

has_collected_coin_at_location(g, state, x, y) ==
  has_collected_coin(state, get_coin_id(g, x, y))

\* State.__eq__: equality of the tuples (x, y, coins_collected)
StateEq(a, b) ==
  a.x = b.x /\ a.y = b.y /\ a.coins_collected = b.coins_collected

\* State.__lt__: Python's "<" on the tuples (x, y, coins_collected): the first
\* component that differs decides, and "<" on frozensets is "proper subset".
StateLt(a, b) ==
  IF a.x # b.x THEN a.x < b.x
  ELSE IF a.y # b.y THEN a.y < b.y
  ELSE IF a.coins_collected # b.coins_collected
    THEN a.coins_collected \subseteq b.coins_collected
  ELSE FALSE

(***************************************************************************)
(* The heuristics                                                          *)
(***************************************************************************)
HeuristicNames ==
  {"Blind", "ManhattanMax", "ManhattanSum", "ManhattanOrderedSum", "CallMeFancy"}

Abs(n) == IF n < 0 THEN -n ELSE n

\* The sum, where the maximum is asked for.
SumInsteadOfMax(a, b) == a + b

Max2(a, b) == IF a >= b THEN a ELSE b

ManhattanDist(a, b) == Abs(a[1] - b[1]) + Abs(a[2] - b[2])

\* The coins of "for coin_x, coin_y in coins" that pass the
\* "not state.has_collected_coin_at_location(coin_x, coin_y)" test, in loop order.
CoinsNotCollected(g, state) ==
  SelectSeq(get_coin_locations(g),
            LAMBDA c : ~has_collected_coin_at_location(g, state, c[1], c[2]))

BlindHeuristic(g, state) == 0

RECURSIVE MaxLoop(_, _, _, _)
MaxLoop(cs, k, pos, maximum) ==
  IF k > Len(cs) THEN maximum
  ELSE MaxLoop(cs, k + 1, pos, Max2(maximum, ManhattanDist(pos, cs[k])))

ManhattanMaxHeuristic(g, state) ==
  Call(CoinsNotCollected(g, state), LAMBDA cs : MaxLoop(cs, 1, <<state.x, state.y>>, 0))

RECURSIVE SumLoop(_, _, _, _)
SumLoop(cs, k, pos, sum_dist) ==
  IF k > Len(cs) THEN sum_dist
  ELSE SumLoop(cs, k + 1, pos, sum_dist + ManhattanDist(pos, cs[k]))

ManhattanSumHeuristic(g, state) ==
  Call(CoinsNotCollected(g, state), LAMBDA cs : SumLoop(cs, 1, <<state.x, state.y>>, 0))

\* A first loop that takes the first coin of the list that is not collected,
\* near or far.
NearestLoopFirst(cs, k, pos, acc) ==
  IF Len(cs) = 0 THEN acc
  ELSE <<ManhattanDist(pos, cs[1]), cs[1][1], cs[1][2]>>

\* The first loop of ManhattanOrderedSumHeuristic: acc = <<dist, c1_x, c1_y>>.
RECURSIVE NearestLoop(_, _, _, _)
NearestLoop(cs, k, pos, acc) ==
  IF k > Len(cs) THEN acc
  ELSE LET Sum == ManhattanDist(pos, cs[k])
       IN NearestLoop(cs, k + 1, pos,
                      IF Sum < acc[1] THEN <<Sum, cs[k][1], cs[k][2]>> ELSE acc)

\* "<" on (x, y) tuples
PairLt(a, b) == a[1] < b[1] \/ (a[1] = b[1] /\ a[2] < b[2])

\* list.sort() on a list of (x, y) tuples
RECURSIVE SortPairs(_)
SortPairs(s) ==
  IF Len(s) <= 1 THEN s
  ELSE LET rest == SortPairs(Tail(s))
           lo == SelectSeq(rest, LAMBDA c : PairLt(c, Head(s)))
           hi == SelectSeq(rest, LAMBDA c : ~PairLt(c, Head(s)))
       IN lo \o <<Head(s)>> \o hi

RECURSIVE PairwiseLoop(_, _, _)
PairwiseLoop(cs, i, dist_sum) ==
  IF i > Len(cs) - 1 THEN dist_sum
  ELSE PairwiseLoop(cs, i + 1, dist_sum + ManhattanDist(cs[i], cs[i + 1]))

\* dist starts at 32**32, which exceeds every distance in the grid; the model
\* starts it at width + height, which does too.
ManhattanOrderedSumHeuristic(g, state) ==
  Call(CoinsNotCollected(g, state), LAMBDA left :
    Call(NearestLoop(left, 1, <<state.x, state.y>>, <<g.width + g.height, 0, 0>>),
         LAMBDA near :
           Call(SortPairs(left), LAMBDA sorted :
             (Abs(state.x - near[2]) + Abs(state.y - near[3])) + PairwiseLoop(sorted, 1, 0))))

\* math.sqrt is computed in fixed point with SqrtScale fractional steps.
SqrtScale == 1024

RECURSIVE IsqrtBetween(_, _, _)
IsqrtBetween(n, lo, hi) ==
  IF lo >= hi THEN lo
  ELSE Call((lo + hi + 1) \div 2,
            LAMBDA mid : IF mid * mid <= n THEN IsqrtBetween(n, mid, hi)
                         ELSE IsqrtBetween(n, lo, mid - 1))

\* floor(sqrt(d) * SqrtScale)
ScaledSqrt(d) ==
  Call(d, LAMBDA v : IsqrtBetween(v * SqrtScale * SqrtScale, 0, (v + 1) * SqrtScale))

RECURSIVE EuclidLoop(_, _, _, _)
EuclidLoop(cs, k, pos, maximum) ==
  IF k > Len(cs) THEN maximum
  ELSE EuclidLoop(cs, k + 1, pos,
         maximum + ScaledSqrt((pos[1] - cs[k][1]) * (pos[1] - cs[k][1])
                              + (pos[2] - cs[k][2]) * (pos[2] - cs[k][2])))

\* int(maximum)
CallMeFancyHeuristic(g, state) ==
  Call(CoinsNotCollected(g, state), LAMBDA cs : EuclidLoop(cs, 1, <<state.x, state.y>>, 0))
    \div SqrtScale

\* heuristic(state) for the Heuristic object named hname
Heuristic(hname, g, state) ==
  Call(state, LAMBDA s :
    CASE hname = "Blind" -> BlindHeuristic(g, s)
      [] hname = "ManhattanMax" -> ManhattanMaxHeuristic(g, s)
      [] hname = "ManhattanSum" -> ManhattanSumHeuristic(g, s)
      [] hname = "ManhattanOrderedSum" -> ManhattanOrderedSumHeuristic(g, s)
      [] hname = "CallMeFancy" -> CallMeFancyHeuristic(g, s))

(***************************************************************************)
(* class SearchNode.  Nodes live in the sequence "nodes"; a node is named  *)
(* by its index there and parent = 0 stands for parent = None.             *)
(***************************************************************************)
SearchNode(ns, state, h, parent) ==
  [state |-> state, parent |-> parent, h |-> h,
   g |-> IF parent = 0 THEN 0 ELSE ns[parent].g + 1]

get_f_value(n) == n.h + n.g

\* A comparison of (f, g, state) that puts the larger g first among equal f.
NodeLtLargerG(a, b) ==
  IF a.h + a.g # b.h + b.g THEN a.h + a.g < b.h + b.g
  ELSE IF a.g # b.g THEN a.g > b.g
  ELSE IF ~StateEq(a.state, b.state) THEN StateLt(a.state, b.state)
  ELSE FALSE

\* A __lt__ that prefers the larger f value.
NodeLtLargerF(a, b) ==
  IF a.h + a.g # b.h + b.g THEN a.h + a.g > b.h + b.g
  ELSE IF a.g # b.g THEN a.g < b.g
  ELSE IF ~StateEq(a.state, b.state) THEN StateLt(a.state, b.state)
  ELSE FALSE

\* SearchNode.__lt__: Python's "<" on the tuples (f, g, state): the first
\* component that differs (by ==) decides, by its own "<".
NodeLt(a, b) ==
  IF get_f_value(a) # get_f_value(b) THEN get_f_value(a) < get_f_value(b)
  ELSE IF a.g # b.g THEN a.g < b.g
  ELSE IF ~StateEq(a.state, b.state) THEN StateLt(a.state, b.state)
  ELSE FALSE

RECURSIVE extract_plan_loop(_, _, _)
extract_plan_loop(ns, p, plan) ==
  IF p = 0 THEN plan
  ELSE extract_plan_loop(ns, ns[p].parent, Append(plan, ns[p].state))

Reversed(s) == [k \in 1..Len(s) |-> s[Len(s) + 1 - k]]

\* An extract_plan that returns the list goal first.
extract_plan_unreversed(ns, p) == extract_plan_loop(ns, p, <<>>)

extract_plan(ns, p) == Reversed(extract_plan_loop(ns, p, <<>>))

\* The key of a state in the expanded and visited tables.
Key(state) == <<state.coins_collected, state.x, state.y>>

\* set_flag(flags): flags[coins_collected][x][y] = True
set_flag(flags, state) == flags \cup {Key(state)}

\* check_if_flagged(flags)
\* A read of the expanded flag that never finds it set.
check_if_flagged_never(flags, state) == FALSE

check_if_flagged(flags, state) == Key(state) \in flags

(***************************************************************************)
(* heapq on a Python list; positions are 0-based as in heapq, the sequence *)
(* is 1-based.  The heap holds node indices, compared by NodeLt.           *)
(***************************************************************************)
\* The while loop of heapq._siftdown.
RECURSIVE SiftDownLoop(_, _, _, _, _)
SiftDownLoop(ns, heap, startpos, pos, newitem) ==
  IF pos > startpos
    THEN LET parentpos == (pos - 1) \div 2
             parent == heap[parentpos + 1]
         IN IF NodeLt(ns[newitem], ns[parent])
              THEN Call(<<[heap EXCEPT ![pos + 1] = parent], parentpos>>,
                        LAMBDA a : SiftDownLoop(ns, a[1], startpos, a[2], newitem))
              ELSE [heap EXCEPT ![pos + 1] = newitem]
    ELSE [heap EXCEPT ![pos + 1] = newitem]

siftdown(ns, heap, startpos, pos) ==
  SiftDownLoop(ns, heap, startpos, pos, heap[pos + 1])

\* The while loop of heapq._siftup, then its closing _siftdown.
RECURSIVE SiftUpLoop(_, _, _, _, _)
SiftUpLoop(ns, heap, startpos, pos, newitem) ==
  LET endpos == Len(heap)
      childpos == 2 * pos + 1
      rightpos == childpos + 1
      pick == IF rightpos < endpos
                 /\ ~NodeLt(ns[heap[childpos + 1]], ns[heap[rightpos + 1]])
                THEN rightpos ELSE childpos
  IN IF childpos < endpos
       THEN Call(<<pick>>, LAMBDA c :
              Call(<<[heap EXCEPT ![pos + 1] = heap[c[1] + 1]], c[1]>>,
                   LAMBDA a : SiftUpLoop(ns, a[1], startpos, a[2], newitem)))
       ELSE Call([heap EXCEPT ![pos + 1] = newitem],
                 LAMBDA h : siftdown(ns, h, startpos, pos))

siftup(ns, heap, pos) == SiftUpLoop(ns, heap, pos, pos, heap[pos + 1])

\* A push that appends the item and leaves it where it is.
heappush_no_sift(ns, heap, item) == Append(heap, item)

heappush(ns, heap, item) ==
  Call(Append(heap, item), LAMBDA h : siftdown(ns, h, 0, Len(h) - 1))

\* A heappop that reads the smallest item and leaves it in the heap.
heappop_keeps_item(ns, heap) == <<heap[1], heap>>

\* A pop that takes the item pushed last to the end of the list, as a stack
\* does.
heappop_last(ns, heap) == <<heap[Len(heap)], SubSeq(heap, 1, Len(heap) - 1)>>

\* heappop: <<the item returned, the heap left>>
heappop(ns, heap) ==
  LET lastelt == heap[Len(heap)]
      rest == SubSeq(heap, 1, Len(heap) - 1)
  IN IF Len(rest) > 0
       THEN <<rest[1], Call([rest EXCEPT ![1] = lastelt], LAMBDA h : siftup(ns, h, 0))>>
       ELSE <<lastelt, rest>>

(***************************************************************************)
(* astar_search                                                            *)
(***************************************************************************)
VARIABLES
  grid,        \* the Grid handed to astar_search
  heuristic,   \* which Heuristic object is handed to astar_search
  pc,          \* "main", "start" (astar_search called), "loop" (at the while
               \* test), "done" (returned), "aborted"
  nodes,       \* every SearchNode created, in creation order
  open_list,   \* the heap (node indices)
  expanded,    \* the keys whose expanded flag is True
  visited,     \* the keys whose visited entry is not None, with the entry
  result,      \* the SearchResult
  node,        \* the node popped last (0: none yet)
  run,         \* which invocation on this grid and heuristic this is
  first,       \* the result the first invocation returned
  print_rate_per_sec,  \* "None" or "rate": the third argument of astar_search
  expanded_false,  \* the keys of the expanded table that hold False
  visited_none,    \* the keys of the visited table that hold None
  order,       \* the states counted as expansions, in the order counted
  lookups,     \* the coordinates handed to Grid.lookup so far
  error,       \* the exception astar_search raised ("" if none)
  first_run,   \* order and tables at the return of the first invocation
  evaluations, \* the states handed to heuristic(...) in this invocation, in
               \* call order
  initial_map,  \* classical_search.py: the map the demo starts from
  agent_coord,  \* classical_search.py: [row, col] of the agent's start cell
  goal_coord,   \* classical_search.py: [row, col] of the goal cell
  current_map,  \* classical_search.py: the map BFS marks cells in
  Q,            \* BFS: the queue, head first
  closed,       \* BFS: the closed list
  enqueued,     \* BFS: the cells handed to Q.put, in call order
  bfs_pc,       \* "menu", "loop" (at the while test of BFS), "returned"
  bfs_result    \* what BFS returned: "True" or "False" ("none" before it returns)

vars == <<grid, heuristic, pc, nodes, open_list, expanded, visited, result,
          node, run, first, print_rate_per_sec, expanded_false, visited_none,
          order, lookups, error, first_run, evaluations,
          initial_map, agent_coord, goal_coord, current_map, Q, closed, enqueued,
          bfs_pc, bfs_result>>

\* The variables of astar_search and its caller.
search_vars == <<grid, heuristic, pc, nodes, open_list, expanded, visited, result,
                 node, run, first, print_rate_per_sec, expanded_false, visited_none,
                 order, lookups, error, first_run, evaluations>>

\* The variables of the uninformed demo (classical_search.py).
bfs_vars == <<initial_map, agent_coord, goal_coord, current_map, Q, closed,
              enqueued, bfs_pc, bfs_result>>

\* result.plan = None
NoPlan == <<>>

\* SearchResult()
SearchResult == [expansions |-> 0, visited |-> 0, plan |-> NoPlan]

\* An expanded table that is kept from one call to the next.
KeptExpanded == expanded

\* defaultdict(... lambda: False): no key is flagged
NewExpanded == {}

\* defaultdict(... lambda: None): no key has an entry
NewVisited == [k \in {} |-> 0]

\* Line 374 left out: the initial state gets no visited entry.
InitialVisitedUnset(state, h) == NewVisited

\* Line 374: visited[coins_collected][x][y] = open_list[0].h
InitialVisited(state, h) == NewVisited @@ (Key(state) :> h)

num_coins(g) == Len(get_coin_locations(g))

HasStart(g) == get_initial_state(g) # None

\* The expanded and visited tables as Python holds them.  A read of a
\* defaultdict key that is absent stores the default under the key:
\* expanded_false are the keys stored with False, visited_none the keys
\* stored with None; expanded are the keys holding True and visited the keys
\* holding a heuristic value.
Tables(exp, vis, exp_false, vis_none) ==
  [expanded |-> exp, visited |-> vis, expanded_false |-> exp_false,
   visited_none |-> vis_none]

\* expanded[k] is read (lines 261, 346, 349, 390)
ReadExpanded(T, k) ==
  IF k \in T.expanded THEN T ELSE [T EXCEPT !.expanded_false = @ \cup {k}]

\* visited[k] is read (lines 346, 351, 392)
ReadVisited(T, k) ==
  IF k \in DOMAIN T.visited THEN T ELSE [T EXCEPT !.visited_none = @ \cup {k}]

\* The tests of lines 338-346 that lead to the read of visited in line 346.
ReachesSymbolTest(g, state, x, y) ==
  /\ ~is_wall(g, x, y)
  /\ ~(state.x = x /\ state.y = y)
  /\ ~(is_coin(g, x, y) /\ get_coin_id(g, x, y) \notin state.coins_collected)

\* The reads of a cell made of a visited table whose default is 0 instead
\* of None: the read stores 0 under the key.
ReportCellZeroDefault(g, state, T, x, y) ==
  LET k == <<state.coins_collected, x, y>>
  IN IF k \in DOMAIN T.visited THEN T ELSE [T EXCEPT !.visited = @ @@ (k :> 0)]

\* Lines 336-353 for the cell (x, y): the reads made of the two tables.
ReportCell(g, state, T, x, y) ==
  LET k == <<state.coins_collected, x, y>>
  IN Call(IF ReachesSymbolTest(g, state, x, y)
            THEN IF k \in DOMAIN T.visited THEN ReadVisited(T, k)
                 ELSE ReadExpanded(ReadVisited(T, k), k)
            ELSE T,
          LAMBDA symbol :
            IF k \in symbol.expanded THEN ReadExpanded(symbol, k)
            ELSE ReadVisited(ReadExpanded(symbol, k), k))

\* The cells in the order of "for y in range(height): for x in range(width)".
ReportOrder(g) ==
  [k \in 1..(g.width * g.height) |-> <<(k - 1) % g.width, (k - 1) \div g.width>>]

\* The tables after the loops of lines 334-336.  The pass for a cell reads
\* and stores under the key of that cell alone, so the passes do not see
\* one another's entries and the tables after the last pass are T with the
\* entries of every pass.
ReportLoop(g, state, T, cells) ==
  Call([i \in 1..Len(cells) |-> ReportCell(g, state, T, cells[i][1], cells[i][2])],
       LAMBDA pass :
         Tables(UNION {pass[i].expanded : i \in 1..Len(cells)},
                [k \in UNION {DOMAIN pass[i].visited : i \in 1..Len(cells)} |->
                   IF k \in DOMAIN T.visited THEN T.visited[k]
                   ELSE pass[CHOOSE i \in 1..Len(cells) : k \in DOMAIN pass[i].visited].visited[k]],
                UNION {pass[i].expanded_false : i \in 1..Len(cells)},
                UNION {pass[i].visited_none : i \in 1..Len(cells)}))

\* print_search_progress(grid, state, expanded, visited): the tables after it.
print_search_progress(g, state, T) ==
  IF Max2(g.width, g.height) > 100 THEN T
  ELSE Call(T, LAMBDA tables :
         Call(ReportOrder(g), LAMBDA cells : ReportLoop(g, state, tables, cells)))

\* The coordinates print_search_progress and print_search_node hand to
\* is_wall, is_coin and get_coin_id: every (x, y) of the two range loops.
LookupsOfReporter(g) ==
  IF Max2(g.width, g.height) > 100 THEN {} ELSE CellsOf(g.width, g.height)

\* The coordinates get_coin_locations hands to is_coin (lines 203-205).
LookupsOfCoinLocations(g) == CellsOf(g.width, g.height)

\* The coordinates a heuristic call hands to the grid: BlindHeuristic makes
\* no query, the others call get_coin_locations and then query coin cells.
LookupsOfHeuristic(hname, g) ==
  IF hname = "Blind" THEN {} ELSE LookupsOfCoinLocations(g)

\* The cells next to the state, with no test that they lie in the grid.
LookupsOfSuccessorsUnguarded(g, state) ==
  {<<state.x + Directions[k][1], state.y + Directions[k][2]>> : k \in 1..Len(Directions)}

\* The coordinates get_successor_states hands to is_wall and is_coin: line
\* 220 calls is_wall only after is_within_boundaries held ("and").
LookupsOfSuccessors(g, state) ==
  {<<state.x + Directions[k][1], state.y + Directions[k][2]>> :
     k \in {j \in 1..Len(Directions) :
              is_within_boundaries(g, state.x + Directions[j][1], state.y + Directions[j][2])}}

\* Grid(): no map yet
EmptyGrid == [width |-> 0, height |-> 0, grid |-> <<>>]

Init ==
  /\ grid = EmptyGrid
  /\ heuristic = "Blind"
  /\ print_rate_per_sec = "None"
  /\ pc = "main"
  /\ nodes = <<>>
  /\ open_list = <<>>
  /\ expanded = {}
  /\ visited = NewVisited
  /\ expanded_false = {}
  /\ visited_none = {}
  /\ result = SearchResult
  /\ node = 0
  /\ order = <<>>
  /\ lookups = {}
  /\ error = ""
  /\ run = 1
  /\ first = SearchResult
  /\ first_run = [order |-> <<>>, expanded |-> {}, visited |-> NewVisited]
  /\ evaluations = <<>>
  /\ initial_map = <<>>
  /\ agent_coord = <<0, 0>>
  /\ goal_coord = <<0, 0>>
  /\ current_map = <<>>
  /\ Q = <<>>
  /\ closed = <<>>
  /\ enqueued = <<>>
  /\ bfs_pc = "menu"
  /\ bfs_result = "none"

\* __main__: the grid is built (the sample map, or a map file with a start
\* and coins), the heuristic is chosen by name, print_rate_per_sec is None
\* with --benchmarking and a rate without, astar_search is called.
Main ==
  /\ pc = "main"
  /\ grid' \in Grids
  /\ heuristic' \in HeuristicNames
  /\ print_rate_per_sec' \in {"None", "rate"}
  /\ pc' = "start"
  /\ UNCHANGED <<nodes, open_list, expanded, visited, result, node, run, first,
                 expanded_false, visited_none, order, lookups, error, first_run,
                 evaluations>>
  /\ UNCHANGED bfs_vars

\* Lines 369-377: the initial state, the root node, the tables, the first
\* report (line 375, made with and without a rate), the result.
SetupState ==
  \E initial_state \in {get_initial_state(grid)} :
  \E root \in {SearchNode(<<>>, initial_state, Heuristic(heuristic, grid, initial_state), 0)} :
  \E T \in {print_search_progress(grid, initial_state,
               Tables(NewExpanded, InitialVisited(initial_state, root.h), {}, {}))} :
     /\ nodes' = <<root>>
     /\ open_list' = <<1>>
     /\ expanded' = T.expanded
     /\ visited' = T.visited
     /\ expanded_false' = T.expanded_false
     /\ visited_none' = T.visited_none
     /\ result' = SearchResult
     /\ node' = 0
     /\ order' = <<>>
     /\ evaluations' = <<initial_state>>
     /\ lookups' = LookupsOfCoinLocations(grid) \cup LookupsOfHeuristic(heuristic, grid)
                     \cup LookupsOfReporter(grid)
     /\ pc' = "loop"

Setup ==
  /\ pc = "start"
  /\ HasStart(grid)
  /\ SetupState
  /\ UNCHANGED <<grid, heuristic, run, first, print_rate_per_sec, error, first_run>>
  /\ UNCHANGED bfs_vars

\* get_initial_state returned None.  With assertions on, the heuristic's or
\* SearchNode's "assert isinstance(state, State)" fails; with assertions off
\* (python -O) the first attribute access on None fails, line 374 at the
\* latest.  Either way astar_search raises before the loop is entered.
SetupFail ==
  /\ pc = "start"
  /\ ~HasStart(grid)
  /\ pc' = "aborted"
  /\ error' \in {"AssertionError", "AttributeError"}
  /\ lookups' = LookupsOfCoinLocations(grid)
  /\ UNCHANGED <<grid, heuristic, nodes, open_list, expanded, visited, result,
                 node, run, first, print_rate_per_sec, expanded_false,
                 visited_none, order, first_run, evaluations>>
  /\ UNCHANGED bfs_vars

\* A pass of the loop that calls heuristic(succ) for every successor it
\* pushes, whether or not the state has a visited entry.
SuccStepRecompute(acc, exp, succ, parent) ==
  IF Key(succ) \in exp THEN acc
  ELSE Call(Key(succ) \notin DOMAIN acc.visited, LAMBDA fresh :
       Call(Heuristic(heuristic, grid, succ), LAMBDA h :
       Call(Append(acc.nodes, SearchNode(acc.nodes, succ, h, parent)),
            LAMBDA ns :
              [nodes |-> ns,
               open_list |-> heappush(ns, acc.open_list, Len(ns)),
               visited |-> IF fresh THEN acc.visited @@ (Key(succ) :> h) ELSE acc.visited,
               count |-> IF fresh THEN acc.count + 1 ELSE acc.count,
               expanded_false |-> acc.expanded_false \cup {Key(succ)},
               visited_none |-> acc.visited_none \ {Key(succ)},
               evaluations |-> Append(acc.evaluations, succ)])))

\* A pass of the loop that counts every successor it pushes as newly visited.
SuccStepCountsAll(acc, exp, succ, parent) ==
  IF Key(succ) \in exp THEN acc
  ELSE Call(Key(succ) \notin DOMAIN acc.visited, LAMBDA fresh :
       Call(IF fresh
              THEN acc.visited @@ (Key(succ) :> Heuristic(heuristic, grid, succ))
              ELSE acc.visited, LAMBDA vis :
       Call(Append(acc.nodes, SearchNode(acc.nodes, succ, vis[Key(succ)], parent)),
            LAMBDA ns :
              [nodes |-> ns,
               open_list |-> heappush(ns, acc.open_list, Len(ns)),
               visited |-> vis,
               count |-> acc.count + 1,
               expanded_false |-> acc.expanded_false \cup {Key(succ)},
               visited_none |-> acc.visited_none \ {Key(succ)},
               evaluations |-> IF fresh THEN Append(acc.evaluations, succ)
                               ELSE acc.evaluations])))

\* Lines 389-395, one pass of "for succ in successors".
\* acc = [nodes, open_list, visited, count, expanded_false, visited_none,
\* evaluations] as left by the passes before; exp is the set of keys flagged
\* expanded.
SuccStep(acc, exp, succ, parent) ==
  IF Key(succ) \in exp THEN acc
  ELSE Call(Key(succ) \notin DOMAIN acc.visited, LAMBDA fresh :
       Call(IF fresh
              THEN acc.visited @@ (Key(succ) :> Heuristic(heuristic, grid, succ))
              ELSE acc.visited, LAMBDA vis :
       Call(Append(acc.nodes, SearchNode(acc.nodes, succ, vis[Key(succ)], parent)),
            LAMBDA ns :
              [nodes |-> ns,
               open_list |-> heappush(ns, acc.open_list, Len(ns)),
               visited |-> vis,
               count |-> IF fresh THEN acc.count + 1 ELSE acc.count,
               expanded_false |-> acc.expanded_false \cup {Key(succ)},
               visited_none |-> acc.visited_none \ {Key(succ)},
               evaluations |-> IF fresh THEN Append(acc.evaluations, succ)
                               ELSE acc.evaluations])))

RECURSIVE SuccLoop(_, _, _, _, _)
SuccLoop(acc, exp, successors, k, parent) ==
  IF k > Len(successors) THEN acc
  ELSE Call(successors[k], LAMBDA succ :
         Call(SuccStep(acc, exp, succ, parent),
              LAMBDA a : SuccLoop(a, exp, successors, k + 1, parent)))

\* Lines 396-398: the report made when a rate is given.
Report(state, T) ==
  IF print_rate_per_sec # "None" THEN print_search_progress(grid, state, T) ELSE T

\* A discard placed after line 383: the expansion is counted first.
DiscardCounted ==
  /\ pc = "loop"
  /\ Len(open_list) > 0
  /\ \E popped \in {heappop(nodes, open_list)} :
        /\ check_if_flagged(expanded, nodes[popped[1]].state)
        /\ node' = popped[1]
        /\ open_list' = popped[2]
  /\ result' = [result EXCEPT !.expansions = @ + 1]
  /\ UNCHANGED <<grid, heuristic, pc, nodes, expanded, visited, run, first,
                 print_rate_per_sec, expanded_false, visited_none, order, lookups,
                 error, first_run, evaluations>>
  /\ UNCHANGED bfs_vars

\* Lines 380-382: the popped node's state is flagged expanded: continue.
Discard ==
  /\ pc = "loop"
  /\ Len(open_list) > 0
  /\ \E popped \in {heappop(nodes, open_list)} :
        /\ check_if_flagged(expanded, nodes[popped[1]].state)
        /\ node' = popped[1]
        /\ open_list' = popped[2]
  /\ UNCHANGED <<grid, heuristic, pc, nodes, expanded, visited, result, run, first,
                 print_rate_per_sec, expanded_false, visited_none, order, lookups,
                 error, first_run, evaluations>>
  /\ UNCHANGED bfs_vars

\* The goal test made before the expansion is counted.
GoalUncounted ==
  /\ pc = "loop"
  /\ Len(open_list) > 0
  /\ \E popped \in {heappop(nodes, open_list)} :
        /\ ~check_if_flagged(expanded, nodes[popped[1]].state)
        /\ Cardinality(nodes[popped[1]].state.coins_collected) = num_coins(grid)
        /\ node' = popped[1]
        /\ open_list' = popped[2]
        /\ result' = [result EXCEPT !.plan = extract_plan(nodes, popped[1])]
        /\ expanded_false' = expanded_false \cup {Key(nodes[popped[1]].state)}
        /\ order' = Append(order, nodes[popped[1]].state)
  /\ lookups' = lookups \cup LookupsOfReporter(grid)
  /\ pc' = "done"
  /\ UNCHANGED <<grid, heuristic, nodes, expanded, visited, run, first,
                 print_rate_per_sec, visited_none, error, first_run, evaluations>>
  /\ UNCHANGED bfs_vars

\* Lines 380-387: the popped node is a goal: the expansion is counted, the
\* plan is extracted, the node is printed, break.
Goal ==
  /\ pc = "loop"
  /\ Len(open_list) > 0
  /\ \E popped \in {heappop(nodes, open_list)} :
        /\ ~check_if_flagged(expanded, nodes[popped[1]].state)
        /\ Cardinality(nodes[popped[1]].state.coins_collected) = num_coins(grid)
        /\ node' = popped[1]
        /\ open_list' = popped[2]
        /\ result' = [result EXCEPT !.expansions = @ + 1,
                                    !.plan = extract_plan(nodes, popped[1])]
        /\ expanded_false' = expanded_false \cup {Key(nodes[popped[1]].state)}
        /\ order' = Append(order, nodes[popped[1]].state)
  /\ lookups' = lookups \cup LookupsOfReporter(grid)
  /\ pc' = "done"
  /\ UNCHANGED <<grid, heuristic, nodes, expanded, visited, run, first,
                 print_rate_per_sec, visited_none, error, first_run, evaluations>>
  /\ UNCHANGED bfs_vars

\* Lines 380-399: the popped node is expanded.
Expand ==
  /\ pc = "loop"
  /\ Len(open_list) > 0
  /\ \E popped \in {heappop(nodes, open_list)} :
     \E state \in {nodes[popped[1]].state} :
        /\ ~check_if_flagged(expanded, state)
        /\ Cardinality(state.coins_collected) # num_coins(grid)
        /\ \E successors \in {get_successor_states(grid, state)} :
           \E acc \in {SuccLoop([nodes |-> nodes, open_list |-> popped[2],
                                  visited |-> visited, count |-> result.visited,
                                  expanded_false |-> expanded_false \cup {Key(state)},
                                  visited_none |-> visited_none,
                                  evaluations |-> evaluations],
                                 expanded, successors, 1, popped[1])} :
           \E T \in {Report(state, Tables(expanded, acc.visited, acc.expanded_false,
                                          acc.visited_none))} :
             /\ node' = popped[1]
             /\ nodes' = acc.nodes
             /\ open_list' = acc.open_list
             /\ visited' = T.visited
             /\ visited_none' = T.visited_none
             /\ result' = [result EXCEPT !.expansions = @ + 1, !.visited = acc.count]
             /\ expanded' = set_flag(T.expanded, state)
             /\ expanded_false' = T.expanded_false \ {Key(state)}
             /\ order' = Append(order, state)
             /\ evaluations' = acc.evaluations
             /\ lookups' = lookups \cup LookupsOfSuccessors(grid, state)
                             \cup (IF acc.count # result.visited
                                     THEN LookupsOfHeuristic(heuristic, grid) ELSE {})
                             \cup (IF print_rate_per_sec # "None"
                                     THEN LookupsOfReporter(grid) ELSE {})
  /\ UNCHANGED <<grid, heuristic, pc, run, first, print_rate_per_sec, error, first_run>>
  /\ UNCHANGED bfs_vars

\* Line 379 with the open list empty, then line 401.
Exhausted ==
  /\ pc = "loop"
  /\ Len(open_list) = 0
  /\ pc' = "done"
  /\ UNCHANGED <<grid, heuristic, nodes, open_list, expanded, visited, result,
                 node, run, first, print_rate_per_sec, expanded_false,
                 visited_none, order, lookups, error, first_run, evaluations>>
  /\ UNCHANGED bfs_vars

\* What the caller keeps of the first invocation besides its result.
FirstRun == [order |-> order, expanded |-> expanded, visited |-> visited]

\* The caller keeps the first result and calls astar_search again on the
\* same Grid and Heuristic objects.
Rerun ==
  /\ pc = "done"
  /\ run = 1
  /\ HasStart(grid)
  /\ first' = result
  /\ first_run' = FirstRun
  /\ run' = 2
  /\ SetupState
  /\ UNCHANGED <<grid, heuristic, print_rate_per_sec, error>>
  /\ UNCHANGED bfs_vars

\* The caller ran astar_search with print_rate_per_sec = None and calls it
\* again on the same Grid and Heuristic objects with a rate.
RerunReporting ==
  /\ pc = "done"
  /\ run = 1
  /\ HasStart(grid)
  /\ print_rate_per_sec = "None"
  /\ print_rate_per_sec' = "rate"
  /\ first' = result
  /\ first_run' = FirstRun
  /\ run' = 2
  /\ SetupState
  /\ UNCHANGED <<grid, heuristic, error>>
  /\ UNCHANGED bfs_vars

Next == Main \/ Setup \/ SetupFail \/ Discard \/ Goal \/ Expand \/ Exhausted

Spec == Init /\ [][Next]_vars

NextTwice == Next \/ Rerun

SpecTwice == Init /\ [][NextTwice]_vars

NextReporting == Next \/ RerunReporting

SpecReporting == Init /\ [][NextReporting]_vars

\* The loop body runs to its end and the loop test is taken again: the
\* function is straight-line code between two visits of line 379.
FairSpec == Spec /\ WF_vars(Next)

(***************************************************************************)
(* classical_search.py: the uninformed demo.  A map is a list of rows of   *)
(* one-letter strings; cells are named [row, col], 0-based.                *)
(***************************************************************************)
GOAL_SYMBOL == "G"
VISITED_CELL_SYMBOL == "V"
EXPANDED_NOT_VISITED_CELL_SYMBOL == "E"

\* A Python list of rows as a map indexed from 0.
MapOf(rows) ==
  [r \in 0..(Len(rows) - 1) |-> [c \in 0..(Len(rows[1]) - 1) |-> rows[r + 1][c + 1]]]

\* initial_map, agent_coord and goal_coord as the file sets them.
DemoMap ==
  MapOf(<< <<"#", "#", "#", "#", "#", "#", "#", "#", "#">>,
           <<"#", " ", " ", "A", " ", " ", " ", " ", "#">>,
           <<"#", " ", "#", " ", "#", " ", "#", "#", "#">>,
           <<"#", " ", "#", "#", "#", " ", "#", " ", "#">>,
           <<"#", " ", "#", " ", "#", " ", " ", "G", "#">>,
           <<"#", " ", " ", " ", "#", " ", "#", "#", "#">>,
           <<"#", " ", "#", " ", "#", " ", " ", " ", "#">>,
           <<"#", " ", "#", " ", "#", "#", "#", " ", "#">>,
           <<"#", "#", "#", "#", "#", "#", "#", "#", "#">> >>)

DemoInput == [map |-> DemoMap, agent |-> <<1, 3>>, goal |-> <<4, 7>>]

\* The enumerated demo inputs: maps of the shapes (rows, cols) below with
\* the agent on a cell, at most MaxBfsWalls walls on other cells, and the
\* goal coordinate on any cell ('G' is written where the cell is free).
MaxBfsWalls == 3

BfsShapes == {<<3, 3>>, <<2, 3>>, <<1, 4>>}

MapCells(rows, cols) == (0..(rows - 1)) \X (0..(cols - 1))

BfsMap(rows, cols, agent, walls, goal) ==
  [r \in 0..(rows - 1) |-> [c \in 0..(cols - 1) |->
     IF <<r, c>> = agent THEN AGENT_SYMBOL
     ELSE IF <<r, c>> \in walls THEN WALL_SYMBOL
     ELSE IF <<r, c>> = goal THEN GOAL_SYMBOL
     ELSE EMPTY_SYMBOL]]

BfsInputs ==
  UNION {
    {[map |-> BfsMap(sh[1], sh[2], agent, walls, goal), agent |-> agent, goal |-> goal] :
       agent \in MapCells(sh[1], sh[2]),
       goal \in MapCells(sh[1], sh[2]),
       walls \in {ws \in SUBSET MapCells(sh[1], sh[2]) : Cardinality(ws) <= MaxBfsWalls}} :
    sh \in BfsShapes}

\* The inputs of the demo: the start cell is never a wall.
DemoInputs ==
  {in \in BfsInputs : in.map[in.agent[1]][in.agent[2]] = AGENT_SYMBOL} \cup {DemoInput}

\* len(current_map), len(current_map[0])
NumRows(map) == Cardinality(DOMAIN map)

NumCols(map) == Cardinality(DOMAIN map[0])

\* valid_cell(row, col) on the map current_map.  "is not" on one-letter
\* strings is "!=": they are the same object whenever they are equal.
valid_cell(map, row, col) ==
  /\ row >= 0
  /\ row < NumRows(map)
  /\ col >= 0
  /\ col < NumCols(map)
  /\ map[row][col] # WALL_SYMBOL
  /\ map[row][col] # VISITED_CELL_SYMBOL

\* A generate_adjacent_cells that leaves the two diagonal lists empty.
generate_adjacent_cells_no_diagonals(agent_row, agent_col) ==
  << <<agent_row, agent_row + 1, agent_row, agent_row - 1>>,
     <<agent_col - 1, agent_col, agent_col + 1, agent_col>>,
     <<>>,
     <<>> >>

\* generate_adjacent_cells: [adjacent_cells_row, adjacent_cells_col,
\* diagonal_cells_row, diagonal_cells_col]; adjacent cells in the order left,
\* down, right, up; diagonal cells in the order left up, left down, right
\* down, right up.
generate_adjacent_cells(agent_row, agent_col) ==
  << <<agent_row, agent_row + 1, agent_row, agent_row - 1>>,
     <<agent_col - 1, agent_col, agent_col + 1, agent_col>>,
     <<agent_row - 1, agent_row + 1, agent_row + 1, agent_row - 1>>,
     <<agent_col - 1, agent_col - 1, agent_col + 1, agent_col + 1>> >>

\* "cell in closed" on the Python list closed
InList(cell, list) == \E k \in 1..Len(list) : list[k] = cell

\* One pass of the loops of lines 157-164 and 167-174 for the cell (row, col).
\* acc = [current_map, Q, closed, enqueued] as left by the passes before.
EnqueueStep(acc, row, col) ==
  IF valid_cell(acc.current_map, row, col) /\ ~InList(<<row, col>>, acc.closed)
    THEN [current_map |-> [acc.current_map EXCEPT ![row][col] = EXPANDED_NOT_VISITED_CELL_SYMBOL],
          Q |-> Append(acc.Q, <<row, col>>),
          closed |-> Append(acc.closed, <<row, col>>),
          enqueued |-> Append(acc.enqueued, <<row, col>>)]
    ELSE acc

RECURSIVE EnqueueLoop(_, _, _, _)
EnqueueLoop(acc, cells_row, cells_col, i) ==
  IF i > Len(cells_row) THEN acc
  ELSE Call(EnqueueStep(acc, cells_row[i], cells_col[i]),
            LAMBDA a : EnqueueLoop(a, cells_row, cells_col, i + 1))

\* The menu loop: current_map = deepcopy(initial_map), the command is 'bfs',
\* BFS(agent_coord[0], agent_coord[1]) is called and runs to its loop test.
BfsCall ==
  /\ bfs_pc = "menu"
  /\ \E in \in DemoInputs :
        /\ initial_map' = in.map
        /\ agent_coord' = in.agent
        /\ goal_coord' = in.goal
        /\ current_map' = in.map
        /\ Q' = <<in.agent>>
        /\ enqueued' = <<in.agent>>
  /\ closed' = <<>>
  /\ bfs_pc' = "loop"
  /\ UNCHANGED bfs_result
  /\ UNCHANGED search_vars

\* Lines 130-143: the cell taken from the queue is the goal: return True.
BfsFound ==
  /\ bfs_pc = "loop"
  /\ Len(Q) > 0
  /\ \E agent \in {Head(Q)} :
        /\ agent[1] = goal_coord[1] /\ agent[2] = goal_coord[2]
        /\ Q' = Tail(Q)
        /\ current_map' = [current_map EXCEPT ![agent[1]][agent[2]] = AGENT_SYMBOL]
        /\ closed' = Append(closed, agent)
  /\ bfs_result' = "True"
  /\ bfs_pc' = "returned"
  /\ UNCHANGED <<initial_map, agent_coord, goal_coord, enqueued>>
  /\ UNCHANGED search_vars

\* Lines 130-179: the cell taken from the queue is not the goal: its valid
\* neighbours that are not in closed are queued, the cell is marked visited.
BfsExpand ==
  /\ bfs_pc = "loop"
  /\ Len(Q) > 0
  /\ \E agent \in {Head(Q)} :
     \E cells \in {generate_adjacent_cells(agent[1], agent[2])} :
        /\ ~(agent[1] = goal_coord[1] /\ agent[2] = goal_coord[2])
        /\ \E adj \in {EnqueueLoop(
                         [current_map |-> [current_map EXCEPT ![agent[1]][agent[2]] = AGENT_SYMBOL],
                          Q |-> Tail(Q),
                          closed |-> Append(closed, agent),
                          enqueued |-> enqueued],
                         cells[1], cells[2], 1)} :
           \E acc \in {EnqueueLoop(adj, cells[3], cells[4], 1)} :
              /\ current_map' = [acc.current_map EXCEPT ![agent[1]][agent[2]] = VISITED_CELL_SYMBOL]
              /\ Q' = acc.Q
              /\ closed' = acc.closed
              /\ enqueued' = acc.enqueued
  /\ UNCHANGED <<initial_map, agent_coord, goal_coord, bfs_pc, bfs_result>>
  /\ UNCHANGED search_vars

\* Line 130 with the queue empty, then line 181: return False.
BfsEmpty ==
  /\ bfs_pc = "loop"
  /\ Len(Q) = 0
  /\ bfs_result' = "False"
  /\ bfs_pc' = "returned"
  /\ UNCHANGED <<initial_map, agent_coord, goal_coord, current_map, Q, closed, enqueued>>
  /\ UNCHANGED search_vars

NextBFS == BfsCall \/ BfsFound \/ BfsExpand \/ BfsEmpty

SpecBFS == Init /\ [][NextBFS]_vars

(***************************************************************************)
(* Reference definitions, independent of the search: the legal moves of    *)
(* the coin collection task and the least number of moves to collect all.  *)
(***************************************************************************)
AllCoinIds(g) ==
  {g.grid[c[1]][c[2]].id : c \in {d \in CellsOf(g.width, g.height) : g.grid[d[1]][d[2]].sym = "int"}}

FreeCell(g, x, y) ==
  /\ x \in 0..(g.width - 1)
  /\ y \in 0..(g.height - 1)
  /\ g.grid[x][y].sym # "#"

\* t is one axis-aligned unit move from s, collecting what lies on t's cell.
LegalStep(g, s, t) ==
  /\ FreeCell(g, t.x, t.y)
  /\ Abs(t.x - s.x) + Abs(t.y - s.y) = 1
  /\ t.coins_collected =
       IF g.grid[t.x][t.y].sym = "int"
         THEN s.coins_collected \cup {g.grid[t.x][t.y].id}
         ELSE s.coins_collected

RefMoves(g, s) ==
  {t \in [x : {s.x - 1, s.x, s.x + 1}, y : {s.y - 1, s.y, s.y + 1},
          coins_collected : {s.coins_collected} \cup
                            {s.coins_collected \cup {i} : i \in AllCoinIds(g)}] :
     LegalStep(g, s, t)}

AllCollected(g, s) == s.coins_collected = AllCoinIds(g)

\* Breadth-first search over (x, y, collected set): the depth of the first
\* layer holding a state with all coins collected, -1 if there is none.
RECURSIVE RefBfs(_, _, _, _)
RefBfs(g, frontier, seen, d) ==
  IF \E s \in frontier : AllCollected(g, s) THEN d
  ELSE LET next == UNION {RefMoves(g, s) : s \in frontier} \ seen
       IN IF next = {} THEN -1 ELSE RefBfs(g, next, seen \cup next, d + 1)

RefMinMoves(g) ==
  RefBfs(g, {get_initial_state(g)}, {get_initial_state(g)}, 0)

PlanMoves == Len(result.plan) - 1

(***************************************************************************)
(* C1: with BlindHeuristic or ManhattanMaxHeuristic, on every grid with a  *)
(* start cell where all coins can be collected, the plan returned has the  *)
(* least possible number of moves (the reference breadth-first depth).     *)
(***************************************************************************)
C1_OptimalPlan ==
  (pc = "done" /\ heuristic \in {"Blind", "ManhattanMax"} /\ RefMinMoves(grid) >= 0)
    => (result.plan # NoPlan /\ PlanMoves = RefMinMoves(grid))

C1_Witness ==
  /\ pc = "done"
  /\ heuristic = "ManhattanMax"
  /\ num_coins(grid) = 2
  /\ result.plan # NoPlan
  /\ PlanMoves = RefMinMoves(grid)
  /\ PlanMoves >= 4

(***************************************************************************)
(* C2: with every heuristic, a returned plan is valid: it starts at the    *)
(* initial state with nothing collected, each step is a legal move that    *)
(* collects the coin of the cell entered, it ends with all coins           *)
(* collected, and its number of moves is the g value of the goal node.     *)
(***************************************************************************)
C2_ValidPlan ==
  result.plan # NoPlan =>
    /\ result.plan[1] = get_initial_state(grid)
    /\ result.plan[1].coins_collected = {}
    /\ \A k \in 1..(Len(result.plan) - 1) :
         LegalStep(grid, result.plan[k], result.plan[k + 1])
    /\ AllCollected(grid, result.plan[Len(result.plan)])
    /\ PlanMoves = nodes[node].g

C2_Witness ==
  /\ result.plan # NoPlan
  /\ heuristic = "ManhattanSum"
  /\ grid = ThreeCoinGrid
  /\ PlanMoves > RefMinMoves(grid)

(***************************************************************************)
(* C3: on every grid with a start cell and with every heuristic, the       *)
(* search returns (it does not abort), and it returns no plan exactly when *)
(* no state with all coins collected can be reached by legal moves.        *)
(***************************************************************************)
C3_NoPlanIffUnreachable ==
  /\ HasStart(grid) => pc # "aborted"
  /\ pc = "done" => (result.plan = NoPlan <=> RefMinMoves(grid) = -1)

C3_Witness ==
  /\ pc = "done"
  /\ result.plan = NoPlan
  /\ RefMinMoves(grid) = -1
  /\ result.expansions >= 2

(***************************************************************************)
(* C4: on every grid with a start cell and with every heuristic the search *)
(* terminates: the loop ends by popping a goal node or with the open list  *)
(* empty, and astar_search returns.                                        *)
(***************************************************************************)
C4_Terminates == HasStart(grid) ~> (pc = "done")

\* The search returned after states had been inserted more than once, with
\* nodes still in the open list.
C4_Witness ==
  /\ pc = "done"
  /\ result.plan # NoPlan
  /\ Len(nodes) > result.visited + 1
  /\ Len(open_list) > 0

(***************************************************************************)
(* C5: a second call of astar_search on the same grid and heuristic        *)
(* returns the same plan, expansion count and visited count as the first.  *)
(***************************************************************************)
C5_SameResultTwice == (pc = "done" /\ run = 2) => result = first

C5_Witness ==
  /\ pc = "done"
  /\ run = 2
  /\ result = first
  /\ result.plan # NoPlan
  /\ result.expansions >= 5
  /\ result.visited >= 5

(***************************************************************************)
(* C6 as stated: on the sample grid BlindHeuristic gives a plan of 10      *)
(* moves.                                                                  *)
(***************************************************************************)
C6_SamplePlanTenMoves ==
  (pc = "done" /\ grid = SampleGrid /\ heuristic = "Blind") => PlanMoves = 10

(***************************************************************************)
(* C6 amended: on the sample grid BlindHeuristic gives a plan of 7 moves.  *)
(***************************************************************************)
C6_SamplePlanSevenMoves ==
  (pc = "done" /\ grid = SampleGrid /\ heuristic = "Blind")
    => (result.plan # NoPlan /\ PlanMoves = 7)

C6_Witness ==
  /\ pc = "done"
  /\ grid = SampleGrid
  /\ heuristic = "Blind"
  /\ Len(result.plan) = 8
  /\ result.plan[8].x = 7
  /\ result.plan[8].y = 4

(***************************************************************************)
(* C7: on a grid with a start cell and no coins, with every heuristic, the *)
(* plan is the initial state alone and exactly one expansion is counted.   *)
(***************************************************************************)
C7_NoCoins ==
  (pc = "done" /\ num_coins(grid) = 0)
    => (result.plan = <<get_initial_state(grid)>> /\ result.expansions = 1)

C7_Witness ==
  /\ pc = "done"
  /\ grid = SampleGridNoCoin
  /\ heuristic = "ManhattanOrderedSum"
  /\ result.plan = <<MkState(3, 1, {})>>
  /\ result.expansions = 1

\* Every state of the grid: a cell that is not a wall, any set of coin ids.
StatesOf(g) ==
  {MkState(c[1], c[2], cs) :
     c \in {d \in CellsOf(g.width, g.height) : FreeCell(g, d[1], d[2])},
     cs \in SUBSET AllCoinIds(g)}

\* The cells one axis-aligned step away that are in the grid and not walls.
RefNeighbours(g, x, y) ==
  {c \in {<<x - 1, y>>, <<x + 1, y>>, <<x, y - 1>>, <<x, y + 1>>} : FreeCell(g, c[1], c[2])}

CellsOfStates(seq) == {<<seq[k].x, seq[k].y>> : k \in 1..Len(seq)}

(***************************************************************************)
(* C8: for every state on a cell that is in the grid and not a wall,       *)
(* get_successor_states returns one state for each axis-aligned neighbour  *)
(* that is in the grid and not a wall, and nothing else.                   *)
(***************************************************************************)
C8_SuccessorCells ==
  \A s \in StatesOf(grid) :
    LET succ == get_successor_states(grid, s)
    IN /\ CellsOfStates(succ) = RefNeighbours(grid, s.x, s.y)
       /\ Len(succ) = Cardinality(RefNeighbours(grid, s.x, s.y))

\* A state was expanded that has a wall beside it and the grid's edge
\* beside it, and two successors.
C8_Witness ==
  /\ node # 0
  /\ Key(nodes[node].state) \in expanded
  /\ Len(get_successor_states(grid, nodes[node].state)) = 2
  /\ nodes[node].state.x = 0
  /\ nodes[node].state.y + 1 < grid.height
  /\ is_wall(grid, 0, nodes[node].state.y + 1)

\* The coin id on the cell of t, as a set (empty if the cell holds no coin).
CoinOn(g, t) ==
  IF g.grid[t.x][t.y].sym = "int" THEN {g.grid[t.x][t.y].id} ELSE {}

SuccessorSetsRight ==
  \A s \in StatesOf(grid) :
    LET succ == get_successor_states(grid, s)
    IN \A k \in 1..Len(succ) :
         /\ succ[k].coins_collected = s.coins_collected \cup CoinOn(grid, succ[k])
         /\ s.coins_collected \subseteq succ[k].coins_collected

\* A step leaves every node created so far, and so its state, as it was.
NodesKept ==
  /\ Len(nodes') >= Len(nodes)
  /\ \A i \in 1..Len(nodes) : nodes'[i] = nodes[i]

(***************************************************************************)
(* C9: the collected set of every successor is the parent's set plus the   *)
(* id of the coin on the successor's cell, if there is one, hence a        *)
(* superset of the parent's; the parent's own state is left as it was.     *)
(***************************************************************************)
C9_SuccessorSets == []SuccessorSetsRight /\ [][NodesKept]_vars

\* A node was expanded into one successor that gained a coin and another
\* that did not, and the node still holds the set it had.
C9_Witness ==
  /\ node # 0
  /\ Key(nodes[node].state) \in expanded
  /\ \E i, j \in 1..Len(nodes) :
       /\ nodes[i].parent = node
       /\ nodes[j].parent = node
       /\ nodes[i].state.coins_collected # nodes[node].state.coins_collected
       /\ nodes[j].state.coins_collected = nodes[node].state.coins_collected

(***************************************************************************)
(* C10: every key marked expanded has a visited entry that is set, and the *)
(* entry was set before the key was marked expanded.                       *)
(***************************************************************************)
C10_ExpandedWereVisited ==
  /\ [](expanded \subseteq DOMAIN visited)
  /\ [][(expanded' \ expanded) \subseteq DOMAIN visited]_vars

C10_Witness ==
  /\ Cardinality(expanded) >= 3
  /\ expanded \subseteq DOMAIN visited
  /\ Cardinality(DOMAIN visited) > Cardinality(expanded)

\* The nodes that were handed to SearchNode as a parent: the nodes whose
\* successors were generated and pushed.
Parents == {nodes[i].parent : i \in 1..Len(nodes)} \ {0}

(***************************************************************************)
(* C11: during one invocation no (coin set, x, y) is counted as an         *)
(* expansion twice: the states counted are pairwise different, there are   *)
(* result.expansions of them, and no two nodes of one state had their      *)
(* successors generated.                                                   *)
(***************************************************************************)
C11_ExpandedOnce ==
  /\ Len(order) = result.expansions
  /\ Cardinality({Key(order[i]) : i \in 1..Len(order)}) = Len(order)
  /\ Cardinality({Key(nodes[p].state) : p \in Parents}) = Cardinality(Parents)

\* The node popped last is a second node of a state that another node was
\* expanded for: it was discarded, and has no successors of its own.
C11_Witness ==
  /\ pc = "loop"
  /\ node # 0
  /\ node \notin Parents
  /\ \E p \in Parents : p # node /\ Key(nodes[p].state) = Key(nodes[node].state)
  /\ Len(order) >= 3
  /\ Len(order) = result.expansions

\* No cell of the grid holds the start marker.
NoStartCell(g) ==
  \A c \in CellsOf(g.width, g.height) : g.grid[c[1]][c[2]].sym # AGENT_SYMBOL

(***************************************************************************)
(* C12 as stated: on a grid with no start cell the search is aborted by a  *)
(* ConfigurationError raised to the caller, before any expansion.          *)
(***************************************************************************)
C12_ConfigurationError ==
  (pc \notin {"main", "start"} /\ NoStartCell(grid))
    => (pc = "aborted" /\ error = "ConfigurationError" /\ Len(order) = 0)

\* The cells of the grid that hold a coin.
CoinCells(g) ==
  {c \in CellsOf(g.width, g.height) : g.grid[c[1]][c[2]].sym = "int"}

(***************************************************************************)
(* C13 as stated: get_coin_locations lists the coin cells by ascending     *)
(* coin id: the i-th coordinate returned is the cell that holds id i.      *)
(***************************************************************************)
C13_AscendingIdOrder ==
  \A i \in 1..Len(get_coin_locations(grid)) :
    LET c == get_coin_locations(grid)[i]
    IN grid.grid[c[1]][c[2]] = Coin(i - 1)

(***************************************************************************)
(* C13 amended: get_coin_locations lists every coin cell once, by          *)
(* ascending x and, within one x, by ascending y, whatever the ids are.    *)
(***************************************************************************)
C13_ScanOrderOfCoins ==
  LET locs == get_coin_locations(grid)
  IN /\ {locs[i] : i \in 1..Len(locs)} = CoinCells(grid)
     /\ \A i, j \in 1..Len(locs) :
          i < j => (locs[i][1] < locs[j][1]
                     \/ (locs[i][1] = locs[j][1] /\ locs[i][2] < locs[j][2]))

\* A search with a heuristic that walks the coin list has returned on a
\* grid whose coin 1 comes before its coin 0 in the list.
C13_Witness ==
  /\ pc = "done"
  /\ heuristic = "ManhattanSum"
  /\ Len(get_coin_locations(grid)) = 2
  /\ get_coin_id(grid, get_coin_locations(grid)[1][1], get_coin_locations(grid)[1][2]) = 1
  /\ get_coin_id(grid, get_coin_locations(grid)[2][1], get_coin_locations(grid)[2][2]) = 0

\* A step that pops a node: line 380 is reached with the open list not empty.
\* The node popped is node' and the open list it was popped from is open_list.
Pops == pc = "loop" /\ Len(open_list) > 0 /\ node' \in 1..Len(nodes)

\* The nodes of the open list the pop was made from that tie with the popped
\* node on f.
TiedWithPopped ==
  {open_list[k] : k \in {j \in 1..Len(open_list) :
      get_f_value(nodes[open_list[j]]) = get_f_value(nodes[node'])}}

(***************************************************************************)
(* C14 as stated: among the open-list nodes that tie on the lowest f, the  *)
(* node popped has the largest g.                                          *)
(***************************************************************************)
C14_LargerGFirst ==
  [][Pops => \A i \in TiedWithPopped : nodes[i].g <= nodes[node'].g]_vars

(***************************************************************************)
(* C14 amended: among the open-list nodes that tie on the lowest f, the    *)
(* node popped has the smallest g: a node with larger g is never popped    *)
(* while a node with equal f and smaller g is in the open list.            *)
(***************************************************************************)
C14_SmallerGFirst ==
  [][Pops => \A i \in TiedWithPopped : nodes[node'].g <= nodes[i].g]_vars

\* A node was popped while a node with the same f and a larger g, pushed
\* before the pop, was in the open list (and is still there).
C14_Witness ==
  /\ node # 0
  /\ \E k \in 1..Len(open_list) :
       /\ nodes[open_list[k]].parent # node
       /\ get_f_value(nodes[open_list[k]]) = get_f_value(nodes[node])
       /\ nodes[open_list[k]].g > nodes[node].g

\* The states of the nodes the search has created.
NodeStates == {nodes[i].state : i \in 1..Len(nodes)}

(***************************************************************************)
(* C15 as stated: State.__lt__ is a total order on the states the search   *)
(* holds: of two different states exactly one is less than the other,      *)
(* states at one cell with different collected sets included, and the      *)
(* relation is transitive.                                                 *)
(***************************************************************************)
C15_TotalOrder ==
  /\ \A a, b \in NodeStates :
       ~StateEq(a, b) => (StateLt(a, b) /\ ~StateLt(b, a)) \/ (StateLt(b, a) /\ ~StateLt(a, b))
  /\ \A a, b, c \in NodeStates :
       (StateLt(a, b) /\ StateLt(b, c)) => StateLt(a, c)

(***************************************************************************)
(* C16: a run with print_rate_per_sec set expands the same states in the   *)
(* same order as the run without it on the same grid and heuristic, and    *)
(* returns the same plan, expansion count and visited count; it ends with  *)
(* the same visited values and expanded flags, and no entry the reporter   *)
(* stored hides a visited value or an expanded flag from the engine.       *)
(***************************************************************************)
C16_ReportingChangesNothing ==
  (run = 2 /\ print_rate_per_sec = "rate") =>
    /\ Len(order) <= Len(first_run.order)
    /\ \A i \in 1..Len(order) : order[i] = first_run.order[i]
    /\ visited_none \cap DOMAIN visited = {}
    /\ expanded_false \cap expanded = {}
    /\ pc = "done" =>
         /\ result = first
         /\ order = first_run.order
         /\ expanded = first_run.expanded
         /\ visited = first_run.visited

\* The run with reports has returned a plan after five expansions or more,
\* and its reports left None entries in the visited table.
C16_Witness ==
  /\ run = 2
  /\ print_rate_per_sec = "rate"
  /\ pc = "done"
  /\ result = first
  /\ result.plan # NoPlan
  /\ result.expansions >= 5
  /\ order = first_run.order
  /\ visited_none # {}

\* The least number of legal moves from state s to a state with all coins
\* collected, -1 if there is none.
RefCost(g, s) == RefBfs(g, {s}, {s}, 0)

\* The Manhattan distances from the cell of s to the cells of the coins that
\* s has not collected.
RefDistances(g, s) ==
  {(IF s.x >= c[1] THEN s.x - c[1] ELSE c[1] - s.x)
     + (IF s.y >= c[2] THEN s.y - c[2] ELSE c[2] - s.y) :
     c \in {d \in CoinCells(g) : g.grid[d[1]][d[2]].id \notin s.coins_collected}}

RefMaxDistance(g, s) ==
  IF RefDistances(g, s) = {} THEN 0
  ELSE CHOOSE d \in RefDistances(g, s) : \A e \in RefDistances(g, s) : e <= d

\* The states that legal moves reach from the states of seen.
RECURSIVE RefClosure(_, _, _)
RefClosure(g, frontier, seen) ==
  LET next == UNION {RefMoves(g, s) : s \in frontier} \ seen
  IN IF next = {} THEN seen ELSE RefClosure(g, next, seen \cup next)

\* The states that legal moves reach from the initial state.
RefReachable(g) == RefClosure(g, {get_initial_state(g)}, {get_initial_state(g)})

\* The node popped last and the nodes made for its successors; before the
\* first pop, the root.  Every node is among these at the step that made it.
LatestNodes == {i \in 1..Len(nodes) : i = node \/ nodes[i].parent = node}

(***************************************************************************)
(* C17: the value ManhattanMaxHeuristic gives to a state of the search,    *)
(* and to every state that legal moves reach from the initial state, is    *)
(* the largest Manhattan distance from its cell to a coin not collected (0 *)
(* if all are collected), and it is at most the least number of moves that *)
(* collect the remaining coins from that state.                            *)
(***************************************************************************)
C17_ManhattanMaxAdmissible ==
  heuristic = "ManhattanMax" =>
    /\ \A i \in LatestNodes :
         /\ nodes[i].h = RefMaxDistance(grid, nodes[i].state)
         /\ ManhattanMaxHeuristic(grid, nodes[i].state) = nodes[i].h
         /\ RefCost(grid, nodes[i].state) >= 0 => nodes[i].h <= RefCost(grid, nodes[i].state)
    /\ (pc = "loop" /\ node = 0) =>
         \A s \in RefReachable(grid) :
           /\ ManhattanMaxHeuristic(grid, s) = RefMaxDistance(grid, s)
           /\ RefCost(grid, s) >= 0 => ManhattanMaxHeuristic(grid, s) <= RefCost(grid, s)

\* The search holds a state whose value is below its true cost (a wall is
\* in the way) and a state with two coins left whose value is positive.
C17_Witness ==
  /\ heuristic = "ManhattanMax"
  /\ \E i \in LatestNodes :
       /\ nodes[i].h >= 2
       /\ RefCost(grid, nodes[i].state) > nodes[i].h
  /\ \E i \in 1..Len(nodes) :
       /\ nodes[i].state.coins_collected = {}
       /\ num_coins(grid) = 2
       /\ nodes[i].h = RefMaxDistance(grid, nodes[i].state)
       /\ nodes[i].h > 0

(***************************************************************************)
(* C18 as stated: the value CallMeFancyHeuristic gives to a state of the   *)
(* search is at most the least number of moves that collect the remaining  *)
(* coins from that state.                                                  *)
(***************************************************************************)
C18_CallMeFancyAdmissible ==
  heuristic = "CallMeFancy" =>
    \A i \in LatestNodes :
      RefCost(grid, nodes[i].state) >= 0 => nodes[i].h <= RefCost(grid, nodes[i].state)

(***************************************************************************)
(* C19: in a search on a grid with a start cell, every coordinate handed   *)
(* to lookup, is_wall, is_coin or get_coin_id lies in the grid, and so     *)
(* does every state a heuristic value was computed for and every state of  *)
(* a node: the assertion in Grid.lookup does not fail, the search is not   *)
(* aborted.                                                                *)
(***************************************************************************)
C19_QueriesInBounds ==
  (pc # "main" /\ HasStart(grid)) =>
    /\ lookups \subseteq CellsOf(grid.width, grid.height)
    /\ \A k \in DOMAIN visited : <<k[2], k[3]>> \in CellsOf(grid.width, grid.height)
    /\ \A s \in NodeStates : <<s.x, s.y>> \in CellsOf(grid.width, grid.height)
    /\ pc # "aborted"
    /\ error = ""

\* A state on the grid's edge, whose neighbour cells are partly outside the
\* grid, was expanded, and every cell of the grid has been queried.
C19_Witness ==
  /\ pc = "loop"
  /\ node # 0
  /\ Key(nodes[node].state) \in expanded
  /\ LookupsOfSuccessors(grid, nodes[node].state) # {}
  /\ Cardinality(LookupsOfSuccessors(grid, nodes[node].state)) < 4
  /\ lookups = CellsOf(grid.width, grid.height)
  /\ Len(order) >= 2

(***************************************************************************)
(* C20: the node a pop returns has the lowest f = g + h of the nodes that  *)
(* were in the open list when it was popped: no node of the open list has  *)
(* a smaller f.                                                            *)
(***************************************************************************)
C20_PopsLowestF ==
  [][Pops => \A k \in 1..Len(open_list) :
               get_f_value(nodes[node']) <= get_f_value(nodes[open_list[k]])]_vars

\* A node was popped from an open list that held nodes of larger f, pushed
\* before it was popped, and three nodes or more are still there.
C20_Witness ==
  /\ node # 0
  /\ Len(open_list) >= 3
  /\ heuristic = "ManhattanSum"
  /\ \E k \in 1..Len(open_list) :
       /\ nodes[open_list[k]].parent # node
       /\ open_list[k] > node
       /\ get_f_value(nodes[open_list[k]]) > get_f_value(nodes[node])

\* The node indices a heap holds.
HeapItems(heap) == {heap[k] : k \in 1..Len(heap)}

(***************************************************************************)
(* C21: when the node popped has a state that is flagged expanded, the     *)
(* node is discarded and nothing else happens: the expansion and visited   *)
(* counts, the plan, the visited and expanded tables (stored defaults      *)
(* included) and the list of nodes are as before, the open list has lost   *)
(* the popped node and gained none, no state is counted as expanded, no    *)
(* grid query is made and the loop goes on.                                *)
(***************************************************************************)
C21_LazyDeletion ==
  [][(Pops /\ check_if_flagged(expanded, nodes[node'].state)) =>
       /\ result' = result
       /\ visited' = visited
       /\ expanded' = expanded
       /\ visited_none' = visited_none
       /\ expanded_false' = expanded_false
       /\ nodes' = nodes
       /\ Len(open_list') = Len(open_list) - 1
       /\ HeapItems(open_list') = HeapItems(open_list) \ {node'}
       /\ order' = order
       /\ lookups' = lookups
       /\ pc' = "loop"]_vars

\* The node popped last was discarded: its state had been flagged when an
\* earlier node of the same state, reached by a shorter or equal path, was
\* expanded; nodes are still in the open list.
C21_Witness ==
  /\ pc = "loop"
  /\ node # 0
  /\ node \notin Parents
  /\ check_if_flagged(expanded, nodes[node].state)
  /\ \E p \in Parents :
       /\ p < node
       /\ Key(nodes[p].state) = Key(nodes[node].state)
       /\ nodes[p].g <= nodes[node].g
  /\ Len(open_list) >= 2
  /\ result.plan = NoPlan

\* The value the visited table caches for the state of a node.
CachedH(n) == visited[Key(n.state)]

(***************************************************************************)
(* C22: in one invocation the heuristic is called at most once for each    *)
(* (coin set, x, y): the states it was called on are pairwise different    *)
(* and are the states with a visited value.  Every node created carries as *)
(* h the value cached in visited for its state, so two nodes of one state  *)
(* have the same h; and a cached value, once set, is never changed while   *)
(* the search runs.                                                        *)
(***************************************************************************)
C22_HeuristicOncePerState ==
  /\ [](/\ Cardinality({Key(evaluations[i]) : i \in 1..Len(evaluations)}) = Len(evaluations)
        /\ {Key(evaluations[i]) : i \in 1..Len(evaluations)} = DOMAIN visited
        /\ \A i \in 1..Len(nodes) :
             /\ Key(nodes[i].state) \in DOMAIN visited
             /\ nodes[i].h = CachedH(nodes[i])
        /\ \A i, j \in 1..Len(nodes) :
             nodes[i].state = nodes[j].state => nodes[i].h = nodes[j].h)
  /\ [][pc = "loop" =>
          \A k \in DOMAIN visited : k \in DOMAIN visited' /\ visited'[k] = visited[k]]_vars

\* The open list holds two nodes of one state, made from different parents
\* with different g, both with the positive value the heuristic gave the
\* state the one time it was called on it.
C22_Witness ==
  /\ heuristic = "ManhattanOrderedSum"
  /\ Len(evaluations) >= 4
  /\ Len(nodes) > Len(evaluations)
  /\ \E a, b \in HeapItems(open_list) :
       /\ a # b
       /\ nodes[a].state = nodes[b].state
       /\ nodes[a].g # nodes[b].g
       /\ nodes[a].parent # nodes[b].parent
       /\ nodes[a].h = nodes[b].h
       /\ nodes[a].h > 0
       /\ nodes[a].h = CachedH(nodes[a])

\* The depth of state s: the least number of legal moves that lead from the
\* states of the first frontier to s, -1 if none do.
RECURSIVE RefDepthBfs(_, _, _, _, _)
RefDepthBfs(g, frontier, seen, s, d) ==
  IF s \in frontier THEN d
  ELSE LET next == UNION {RefMoves(g, t) : t \in frontier} \ seen
       IN IF next = {} THEN -1 ELSE RefDepthBfs(g, next, seen \cup next, s, d + 1)

RefDepth(g, s) == RefDepthBfs(g, {get_initial_state(g)}, {get_initial_state(g)}, s, 0)

\* A step that counts an expansion: the node popped is not discarded.
Expands == Pops /\ Len(order') = Len(order) + 1

(***************************************************************************)
(* C23: with BlindHeuristic the nodes come off the open list by            *)
(* non-decreasing g, and the g of a node that is expanded is the depth of  *)
(* its state (the least number of moves from the initial state): the       *)
(* states are expanded in breadth-first order, none at depth d + 1 before  *)
(* one at depth d that is expanded at all.                                 *)
(***************************************************************************)
C23_BlindBreadthFirst ==
  [][heuristic = "Blind" =>
       /\ (Pops /\ node # 0) => nodes[node].g <= nodes[node'].g
       /\ Expands =>
            /\ nodes[node'].g = RefDepth(grid, nodes[node'].state)
            /\ Len(order) > 0 => RefDepth(grid, order[Len(order)]) <= nodes[node'].g]_vars

\* BlindHeuristic: five states or more were expanded, the last at depth 3
\* or more, two of them at the same depth, and some state was inserted
\* into the open list twice.
C23_Witness ==
  /\ heuristic = "Blind"
  /\ node # 0
  /\ Len(order) >= 5
  /\ order[Len(order)] = nodes[node].state
  /\ nodes[node].g >= 3
  /\ RefDepth(grid, order[Len(order) - 1]) = RefDepth(grid, order[Len(order) - 2])
  /\ RefDepth(grid, order[Len(order) - 2]) < nodes[node].g
  /\ Len(nodes) > result.visited + 1

\* The successors of s taken in the order dirs of (dx, dy) steps: for each
\* step that ends on a cell in the grid that is not a wall, the state there
\* with the coin of the cell collected.
SuccessorsInOrder(g, s, dirs) ==
  LET legal == SelectSeq(dirs, LAMBDA d : FreeCell(g, s.x + d[1], s.y + d[2]))
  IN [k \in 1..Len(legal) |->
        LET t == [x |-> s.x + legal[k][1], y |-> s.y + legal[k][2]]
        IN MkState(t.x, t.y, s.coins_collected \cup CoinOn(g, t))]

\* get_successor_states lists the legal neighbours of every state of the
\* grid, and of the node popped last, in the order dirs.
SuccessorOrderIs(dirs) ==
  /\ pc = "start" =>
       \A s \in StatesOf(grid) : get_successor_states(grid, s) = SuccessorsInOrder(grid, s, dirs)
  /\ node # 0 =>
       get_successor_states(grid, nodes[node].state)
         = SuccessorsInOrder(grid, nodes[node].state, dirs)

(***************************************************************************)
(* C24 as stated: get_successor_states returns the legal neighbours in the *)
(* order left (x-1), down (y+1), right (x+1), up (y-1), whatever the       *)
(* state, with illegal neighbours left out.                                *)
(***************************************************************************)
C24_LeftDownRightUp ==
  SuccessorOrderIs(<< <<-1, 0>>, <<0, 1>>, <<1, 0>>, <<0, -1>> >>)

(***************************************************************************)
(* C24 amended: get_successor_states returns the legal neighbours in the   *)
(* order left (x-1), up (y-1), down (y+1), right (x+1), whatever the       *)
(* state, with illegal neighbours left out.                                *)
(***************************************************************************)
C24_LeftUpDownRight ==
  SuccessorOrderIs(<< <<-1, 0>>, <<0, -1>>, <<0, 1>>, <<1, 0>> >>)

\* A node was expanded whose state has a left, an upper and a lower
\* neighbour, and the nodes of the three were created in that order.
C24_Witness ==
  /\ node # 0
  /\ node \in Parents
  /\ \E i \in 1..Len(nodes) :
       /\ i + 2 <= Len(nodes)
       /\ nodes[i].parent = node
       /\ nodes[i + 1].parent = node
       /\ nodes[i + 2].parent = node
       /\ nodes[i].state.x = nodes[node].state.x - 1
       /\ nodes[i + 1].state.y = nodes[node].state.y - 1
       /\ nodes[i + 2].state.y = nodes[node].state.y + 1

\* The coin cells whose coin state s has not collected.
RefUncollected(g, s) ==
  {d \in CoinCells(g) : g.grid[d[1]][d[2]].id \notin s.coins_collected}

\* Coordinate a comes before coordinate b: smaller x, or equal x and smaller y.
RefBefore(a, b) == a[1] < b[1] \/ (a[1] = b[1] /\ a[2] < b[2])

\* The pairs of cells of U that are neighbours when U is put in ascending
\* coordinate order.
RefConsecutive(U) ==
  {p \in U \X U :
     /\ RefBefore(p[1], p[2])
     /\ ~\E c \in U : RefBefore(p[1], c) /\ RefBefore(c, p[2])}

RefManhattan(a, b) ==
  (IF a[1] >= b[1] THEN a[1] - b[1] ELSE b[1] - a[1])
    + (IF a[2] >= b[2] THEN a[2] - b[2] ELSE b[2] - a[2])

RECURSIVE RefSumOfPairs(_)
RefSumOfPairs(P) ==
  IF P = {} THEN 0
  ELSE LET p == CHOOSE q \in P : TRUE
       IN RefManhattan(p[1], p[2]) + RefSumOfPairs(P \ {p})

\* The distance from the cell of s to the nearest cell of U.
RefNearest(s, U) ==
  CHOOSE d \in {RefManhattan(<<s.x, s.y>>, c) : c \in U} :
    \A c \in U : d <= RefManhattan(<<s.x, s.y>>, c)

RefOrderedSum(g, s) ==
  RefNearest(s, RefUncollected(g, s)) + RefSumOfPairs(RefConsecutive(RefUncollected(g, s)))

C26_ZeroAtGoal ==
  /\ \A i \in LatestNodes :
       /\ nodes[i].h \in Nat
       /\ AllCollected(grid, nodes[i].state) => nodes[i].h = 0
  /\ pc = "done" =>
       \A s \in StatesOf(grid) :
         /\ Heuristic(heuristic, grid, s) \in Nat
         /\ AllCollected(grid, s) => Heuristic(heuristic, grid, s) = 0

(***************************************************************************)
(* C27: while a search runs and when it has returned, result.visited is    *)
(* the number of keys with a visited value other than the key of the       *)
(* initial state: the initial state has a value and is not counted, every  *)
(* other state is counted once, when the heuristic is called on it, and    *)
(* expansions <= visited + 1.                                              *)
(***************************************************************************)
C27_VisitedCount ==
  pc \in {"loop", "done"} =>
    /\ Key(get_initial_state(grid)) \in DOMAIN visited
    /\ result.visited = Cardinality(DOMAIN visited \ {Key(get_initial_state(grid))})
    /\ evaluations[1] = get_initial_state(grid)
    /\ \A i \in 2..Len(evaluations) : evaluations[i] # get_initial_state(grid)
    /\ result.visited = Len(evaluations) - 1
    /\ result.expansions <= result.visited + 1

\* A search has returned a plan after it counted five states or more, it
\* made more nodes than it counted states, and it has a node of the initial
\* state only at the root.
C27_Witness ==
  /\ pc = "done"
  /\ result.plan # NoPlan
  /\ result.visited >= 5
  /\ result.visited = Cardinality(DOMAIN visited) - 1
  /\ Len(nodes) > result.visited + 1
  /\ \A i \in 2..Len(nodes) : nodes[i].state # nodes[1].state
  /\ result.expansions <= result.visited

\* The (row, col) steps of axis-aligned moves, and of diagonal moves.
RefAxisSteps == {<<0, -1>>, <<0, 1>>, <<-1, 0>>, <<1, 0>>}

RefDiagonalSteps == {<<-1, -1>>, <<-1, 1>>, <<1, -1>>, <<1, 1>>}

\* The cells of the map that are not walls.
RefFreeCells(map) ==
  {c \in (DOMAIN map) \X (DOMAIN map[0]) : map[c[1]][c[2]] # "#"}

\* The cells that moves by the given steps reach from the cells of seen
\* through cells that are not walls.
RECURSIVE RefMapClosure(_, _, _, _)
RefMapClosure(map, steps, frontier, seen) ==
  LET next == ({<<c[1] + d[1], c[2] + d[2]>> : c \in frontier, d \in steps}
                 \cap RefFreeCells(map)) \ seen
  IN IF next = {} THEN seen ELSE RefMapClosure(map, steps, next, seen \cup next)

RefMapReachable(map, steps, start) == RefMapClosure(map, steps, {start}, {start})

\* The number of cells BFS has taken from the queue: closed gets one entry
\* for each cell taken and one for each cell queued after the first.
Dequeued == Len(closed) - (Len(enqueued) - 1)

(***************************************************************************)
(* C28: BFS hands every cell to the queue at most once, and only cells     *)
(* that axis-aligned and diagonal moves reach from the start cell through  *)
(* cells that are not walls; it returns True exactly when the goal cell is *)
(* among those cells, and when it returns False the queue is empty and     *)
(* every such cell has been queued and taken from the queue.               *)
(***************************************************************************)
C28_BfsReachability ==
  bfs_pc # "menu" =>
    LET reach == RefMapReachable(initial_map, RefAxisSteps \cup RefDiagonalSteps, agent_coord)
        queued == {enqueued[k] : k \in 1..Len(enqueued)}
    IN /\ Cardinality(queued) = Len(enqueued)
       /\ queued \subseteq reach
       /\ Len(Q) = Len(enqueued) - Dequeued
       /\ bfs_pc = "returned" =>
            /\ bfs_result \in {"True", "False"}
            /\ bfs_result = "True" <=> goal_coord \in reach
            /\ bfs_result = "False" => (Len(Q) = 0 /\ queued = reach /\ Dequeued = Len(enqueued))

\* BFS has returned True for a goal that axis-aligned moves alone do not
\* reach: the way leads over a diagonal step between two walls; four cells
\* or more were queued.
C28_Witness ==
  /\ bfs_pc = "returned"
  /\ bfs_result = "True"
  /\ goal_coord \in RefMapReachable(initial_map, RefAxisSteps \cup RefDiagonalSteps, agent_coord)
  /\ goal_coord \notin RefMapReachable(initial_map, RefAxisSteps, agent_coord)
  /\ Len(enqueued) >= 4
  /\ Cardinality({enqueued[k] : k \in 1..Len(enqueued)}) = Len(enqueued)

====
